---- MODULE Spec2Model ----
(***************************************************************************)
(* A model of generate.py: the index generator scans a directory for       *)
(* *.html snippets, extracts a title and a description from each file by   *)
(* regular expressions, renders one index document and writes index.html.  *)
(*                                                                         *)
(* Strings.  A file name is a sequence of one-character strings.  A file's *)
(* content, and every string cut out of it, is a sequence of tokens: a run *)
(* of n equal characters, a tag, or a meta tag carrying its content value. *)
(* The regular expressions of the source are modelled by what they match   *)
(* on such sequences.                                                      *)
(***************************************************************************)
EXTENDS Integers, Sequences, FiniteSets, TLC

\* ---------------------------------------------------------------- bounds

\* Most entries a directory listing holds.
MaxFiles == 2
\* Most tokens of a file's content when titles are extracted.
MaxTitleTokens == 4
\* Most tokens of a file's content when descriptions are extracted.
MaxDescTokens == 4
\* Runs of main in one behaviour.
MaxRuns == 2

\* ------------------------------------------------------------ characters

\* The characters of file names and of the titles made from them, in code
\* point order (str comparison).
Ascii ==
    << " ", ".", "0", "1", "2", "3", "4", "5", "6", "7", "8", "9",
       "A", "B", "C", "D", "E", "F", "G", "H", "I", "J", "K", "L", "M",
       "N", "O", "P", "Q", "R", "S", "T", "U", "V", "W", "X", "Y", "Z",
       "_",
       "a", "b", "c", "d", "e", "f", "g", "h", "i", "j", "k", "l", "m",
       "n", "o", "p", "q", "r", "s", "t", "u", "v", "w", "x", "y", "z" >>

Code(c) == CHOOSE k \in 1..Len(Ascii) : Ascii[k] = c

UpperFirst == Code("A")
LowerFirst == Code("a")

isupper(c) == Code(c) >= UpperFirst /\ Code(c) < UpperFirst + 26
islower(c) == Code(c) >= LowerFirst /\ Code(c) < LowerFirst + 26
iscased(c) == isupper(c) \/ islower(c)
upper(c) == IF islower(c) THEN Ascii[Code(c) - LowerFirst + UpperFirst] ELSE c
lower(c) == IF isupper(c) THEN Ascii[Code(c) - UpperFirst + LowerFirst] ELSE c

\* str.__lt__: code point by code point, a proper prefix is smaller.
RECURSIVE StrLess(_, _)
StrLess(a, b) ==
    IF b = << >> THEN FALSE
    ELSE IF a = << >> THEN TRUE
    ELSE IF Head(a) # Head(b) THEN Code(Head(a)) < Code(Head(b))
    ELSE StrLess(Tail(a), Tail(b))

\* The names in falling order.
RECURSIVE sorted_reverse(_)
sorted_reverse(S) ==
    IF S = {} THEN << >>
    ELSE LET m == CHOOSE x \in S : \A y \in S : y = x \/ StrLess(y, x)
         IN  <<m>> \o sorted_reverse(S \ {m})

\* sorted(...) of a set of names.
RECURSIVE sorted(_)
sorted(S) ==
    IF S = {} THEN << >>
    ELSE LET m == CHOOSE x \in S : \A y \in S : y = x \/ StrLess(x, y)
         IN  <<m>> \o sorted(S \ {m})

HtmlExt == << ".", "h", "t", "m", "l" >>
IndexName == << "i", "n", "d", "e", "x" >> \o HtmlExt

\* str.endswith
endswith(s, suffix) ==
    /\ Len(s) >= Len(suffix)
    /\ SubSeq(s, Len(s) - Len(suffix) + 1, Len(s)) = suffix

\* str.rfind('.') as a 1-based position, 0 when there is none.
LastDot(s) ==
    IF \E k \in 1..Len(s) : s[k] = "."
    THEN CHOOSE k \in 1..Len(s) :
            s[k] = "." /\ \A j \in (k + 1)..Len(s) : s[j] # "."
    ELSE 0

\* pathlib's PurePath.stem: the name up to its last dot, the whole name when
\* the last dot is the first or the last character.
stem(name) ==
    LET p == LastDot(name)
    IN  IF p > 1 /\ p < Len(name) THEN SubSeq(name, 1, p - 1) ELSE name

\* str.replace('_', ' ')
replace_underscores(s) == [k \in 1..Len(s) |-> IF s[k] = "_" THEN " " ELSE s[k]]

\* str.title(): a cased character is uppercased when the character before it
\* is uncased and lowercased when it is cased.
RECURSIVE TitleFrom(_, _)
TitleFrom(s, prevCased) ==
    IF s = << >> THEN << >>
    ELSE LET c == Head(s)
             d == IF prevCased THEN lower(c) ELSE upper(c)
         IN  <<d>> \o TitleFrom(Tail(s), iscased(c))

title_case(s) == TitleFrom(s, FALSE)

\* ---------------------------------------------------------------- tokens

\* A run of n characters c.  "NL" stands for the newline character.
Txt(c, n) == [k |-> "txt", c |-> c, n |-> n, v |-> << >>]
\* A tag other than a meta tag, written t; n is unused for tags.
Tag(t) == [k |-> "tag", c |-> t, n |-> 0, v |-> << >>]
\* A meta tag with a content attribute of value v.  form is
\*   "name-content":  <meta name="description" content="v">
\*   "content-name":  <meta content="v" name="description">
\*   "other-name":    <meta name="viewport" content="v">
Meta(form, v) == [k |-> "meta", c |-> form, n |-> 0, v |-> v]

Space == Txt(" ", 1)
Newline == Txt("NL", 1)
\* The quote character an attribute value written in the other quotes can hold.
Quote == Txt("'", 1)

IsSpace(t) == t.k = "txt" /\ t.c \in {" ", "NL"}

\* Tokens the patterns of the source match (re.IGNORECASE).
TitleOpens == {Tag("<title>"), Tag("<TITLE>")}
TitleCloses == {Tag("</title>"), Tag("</TITLE>")}
\* <h1[^>]*>
H1Opens == {Tag("<h1>"), Tag("<h1 class=x>")}
H1Closes == {Tag("</h1>")}
\* <p[^>]*> : every tag whose text starts with "<p" (or "<P").
POpens == {Tag("<p>"), Tag("<p class=x>"), Tag("<pre>")}
PCloses == {Tag("</p>")}
\* The tags that open a paragraph element.
ParagraphOpens == {Tag("<p>"), Tag("<p class=x>")}

\* A string with adjacent runs of one character merged and empty runs dropped:
\* the one representation of each string.
RECURSIVE Canon(_)
Canon(s) ==
    IF s = << >> THEN << >>
    ELSE LET h == Head(s)
             r == Canon(Tail(s))
         IN  IF h.k = "txt" /\ h.n = 0 THEN r
             ELSE IF h.k = "txt" /\ r # << >> /\ r[1].k = "txt" /\ r[1].c = h.c
                  THEN <<Txt(h.c, h.n + r[1].n)>> \o Tail(r)
                  ELSE <<h>> \o r

\* A file name as a string of the content's kind.
FromChars(name) == Canon([j \in 1..Len(name) |-> Txt(name[j], 1)])

\* len() of a string without tags.
RECURSIVE StrLen(_)
StrLen(s) == IF s = << >> THEN 0 ELSE Head(s).n + StrLen(Tail(s))

\* s[:m] of a string without tags.
RECURSIVE Take(_, _)
Take(s, m) ==
    IF s = << >> \/ m <= 0 THEN << >>
    ELSE IF Head(s).n <= m THEN <<Head(s)>> \o Take(Tail(s), m - Head(s).n)
    ELSE <<Txt(Head(s).c, m)>>

\* str.strip()
RECURSIVE lstrip(_)
lstrip(s) == IF s # << >> /\ IsSpace(Head(s)) THEN lstrip(Tail(s)) ELSE s
RECURSIVE rstrip(_)
rstrip(s) ==
    IF s # << >> /\ IsSpace(s[Len(s)]) THEN rstrip(SubSeq(s, 1, Len(s) - 1)) ELSE s
strip(s) == Canon(rstrip(lstrip(s)))

\* ------------------------------------------------------------- re.search

NoMatch == [matched |-> FALSE, group |-> << >>]

\* The first position from j on that holds a token of closes, 0 when none.
RECURSIVE FindClose(_, _, _)
FindClose(content, j, closes) ==
    IF j > Len(content) THEN 0
    ELSE IF content[j] \in closes THEN j
    ELSE FindClose(content, j + 1, closes)

\* re.search(r'<open>(.*?)<close>', content, re.IGNORECASE | re.DOTALL) from
\* position i on: the leftmost opening token with a closing token after it,
\* the group reaching to the nearest such closing token.
RECURSIVE SearchElement(_, _, _, _)
SearchElement(content, i, opens, closes) ==
    IF i > Len(content) THEN NoMatch
    ELSE IF content[i] \in opens /\ FindClose(content, i + 1, closes) # 0
         THEN [matched |-> TRUE,
               group |-> SubSeq(content, i + 1,
                                FindClose(content, i + 1, closes) - 1)]
         ELSE SearchElement(content, i + 1, opens, closes)

\* ([^"\']*)["\'] on an attribute value: the value up to its first quote
\* character.
RECURSIVE UpToQuote(_)
UpToQuote(v) ==
    IF v = << >> \/ Head(v).c = "'" THEN << >>
    ELSE <<Head(v)>> \o UpToQuote(Tail(v))

\* re.search of the meta description pattern from position i on: the leftmost
\* meta tag in which name="description" stands before content="...".
RECURSIVE SearchMeta(_, _)
SearchMeta(content, i) ==
    IF i > Len(content) THEN NoMatch
    ELSE IF content[i].k = "meta" /\ content[i].c = "name-content"
         THEN [matched |-> TRUE, group |-> UpToQuote(content[i].v)]
         ELSE SearchMeta(content, i + 1)

\* ------------------------------------------------------------ extraction

\* Path(filepath).stem.replace('_', ' ').title()
title_fallback(filepath) ==
    FromChars(title_case(replace_underscores(stem(filepath))))

\* The searches in the other order: the heading first.
title_from_content_h1_first(content, filepath) ==
    LET title_match == SearchElement(content, 1, TitleOpens, TitleCloses)
        h1_match == SearchElement(content, 1, H1Opens, H1Closes)
    IN  IF h1_match.matched THEN strip(h1_match.group)
        ELSE IF title_match.matched THEN strip(title_match.group)
        ELSE title_fallback(filepath)

\* The try body of extract_title_from_html on the text read, and the
\* fallback it falls through to.
title_from_content(content, filepath) ==
    LET title_match == SearchElement(content, 1, TitleOpens, TitleCloses)
        h1_match == SearchElement(content, 1, H1Opens, H1Closes)
    IN  IF title_match.matched THEN strip(title_match.group)
        ELSE IF h1_match.matched THEN strip(h1_match.group)
        ELSE title_fallback(filepath)

\* What extract_title_from_html returns when open or read raised.
title_on_error(filepath) == title_fallback(filepath)

\* re.sub(r'<[^>]+>', '', s)
strip_tags(s) == SelectSeq(s, LAMBDA t : t.k = "txt")

\* ' '.join(s.split()): the words of s with one space between them.  started:
\* a word has been emitted; gap: whitespace was passed since that word.
RECURSIVE JoinWords(_, _, _)
JoinWords(s, started, gap) ==
    IF s = << >> THEN << >>
    ELSE IF IsSpace(Head(s)) THEN JoinWords(Tail(s), started, started)
    ELSE (IF gap THEN <<Space>> ELSE << >>) \o <<Head(s)>>
         \o JoinWords(Tail(s), TRUE, FALSE)

normalize_whitespace(s) == Canon(JoinWords(s, FALSE, FALSE))

\* The length above which a paragraph-derived description is cut.
DescLimit == 150
Ellipsis == <<Txt(".", 3)>>

\* if len(desc) > 150: desc = desc[:150] + '...'
truncate(desc) ==
    IF StrLen(desc) > DescLimit THEN Canon(Take(desc, DescLimit) \o Ellipsis)
    ELSE desc

\* The try body of extract_description_from_html on the text read, and the
\* empty string it falls through to.
description_from_content(content) ==
    LET meta_match == SearchMeta(content, 1)
        p_match == SearchElement(content, 1, POpens, PCloses)
    IN  IF meta_match.matched THEN strip(meta_match.group)
        ELSE IF p_match.matched
             THEN truncate(normalize_whitespace(strip_tags(p_match.group)))
        ELSE << >>

\* A description that is the exception's text.
description_error_text == <<Txt("e", 1)>>

\* What extract_description_from_html returns when open or read raised.
description_on_error == << >>

\* ----------------------------------------------------------------- files

\* A directory entry: a regular file with its text, or a subdirectory.  status
\* says what reading the file does: "ok", "noperm" (open raises) or
\* "undecodable" (read raises UnicodeDecodeError).
File(status, content) == [kind |-> "file", status |-> status, content |-> content]
Directory == [kind |-> "dir", status |-> "ok", content |-> << >>]

\* filename.endswith('.html') alone.
is_html_name(filename) == endswith(filename, HtmlExt)

\* filename.endswith('.html') and filename != 'index.html'
is_snippet_name(filename) == endswith(filename, HtmlExt) /\ filename # IndexName

\* os.path.isfile(os.path.join(directory, filename))
isfile(d, filename) == filename \in DOMAIN d /\ d[filename].kind = "file"

\* extract_title_from_html as a function of the file.
extract_title_from_html(filepath, f) ==
    IF f.status = "ok" THEN title_from_content(f.content, filepath)
    ELSE title_on_error(filepath)

\* extract_description_from_html as a function of the file.
extract_description_from_html(f) ==
    IF f.status = "ok" THEN description_from_content(f.content)
    ELSE description_on_error

\* An exit that closes nothing.
leak_handle(hs) == hs

\* The with statement's exit: the handle opened last is closed.
close_handle(hs) == SubSeq(hs, 1, Len(hs) - 1)

\* ------------------------------------------------------------- rendering

\* The count line with the plural for every number.
count_line_plural(n) ==
    IF n # 0 THEN [text |-> "Found", n |-> n, noun |-> "snippets"]
    ELSE [text |-> "No snippets found", n |-> 0, noun |-> ""]

\* f"Found {len(snippets)} snippet{'s' if len(snippets) != 1 else ''}"
\* and "No snippets found": the line's words, with the number between them.
count_line(n) ==
    IF n # 0
    THEN [text |-> "Found", n |-> n, noun |-> IF n # 1 THEN "snippets" ELSE "snippet"]
    ELSE [text |-> "No snippets found", n |-> 0, noun |-> ""]

\* One <li class="snippet-item">: the link, the description paragraph when the
\* description is not empty, the file name badge.
list_entry(snippet) ==
    [href |-> snippet[1],
     text |-> snippet[2],
     paragraphs |-> IF snippet[3] # << >> THEN <<snippet[3]>> ELSE << >>,
     badge |-> snippet[1]]

\* html_template.format(...): the document generate_index_html writes.
render(snippets, timestamp) ==
    [count |-> count_line(Len(snippets)),
     list |-> Len(snippets) # 0,
     entries |-> [j \in 1..Len(snippets) |-> list_entry(snippets[j])],
     empty_state |-> Len(snippets) = 0,
     timestamp |-> timestamp]

\* The generated page as the extraction patterns see it: its meta description
\* and its <title>.
IndexTokens ==
    << Meta("name-content", <<Txt("c", 1)>>),
       Tag("<title>"), Txt("c", 1), Tag("</title>") >>

\* ----------------------------------------------------------------- state

VARIABLES
    dir,          \* the working directory: file name -> entry
    listable,     \* os.listdir succeeds
    writable,     \* the directory lets index.html be created or overwritten
    index,        \* what index.html holds
    now,          \* the clock, in seconds
    run,          \* the number of the current run of main
    pc,           \* where the run is
    names,        \* sorted(os.listdir(directory))
    i,            \* the loop's position in names
    snippets,     \* the records found so far
    title,        \* find_html_snippets' local
    html_content, \* generate_index_html's local
    handles,      \* the open file handles, in the order opened
    written,      \* every document written, in order (history)
    indexAtStart, \* index when the current run started (history)
    outOpened     \* the current run opened index.html for writing (history)

vars == << dir, listable, writable, index, now, run, pc, names, i, snippets,
           title, html_content, handles, written, indexAtStart, outOpened >>

env == << dir, listable, writable >>

\* open(output_file, 'w') succeeds: not on a subdirectory named index.html.
can_open_output == writable /\ ~(IndexName \in DOMAIN dir /\ dir[IndexName].kind = "dir")

filename == names[i]

\* ---------------------------------------------------------------- inputs

NameA == <<"a">> \o HtmlExt
NameUpperB == <<"B">> \o HtmlExt
NameCamel == <<"a", "B">> \o HtmlExt
NameDigit == <<"a", "1", "b">> \o HtmlExt
NameMySnippet == <<"m", "y", "_", "s", "n", "i", "p", "p", "e", "t">> \o HtmlExt
NameText == <<"a", ".", "t", "x", "t">>

\* The names a directory listing of a whole run draws from.
RunNames == {NameA, NameUpperB, NameMySnippet, IndexName, NameText}

\* The names of the file whose title or description is extracted.
SnippetNames == {NameA, NameCamel, NameDigit, NameMySnippet, HtmlExt}

\* Contents of the files of a whole run: a page with a padded meta description
\* and a title; a page with a heading and a long paragraph; an empty file.
PageWithTitle ==
    << Meta("name-content", <<Space, Txt("a", 1)>>),
       Tag("<title>"), Space, Txt("a", 1), Tag("</title>") >>
PageWithHeading ==
    << Tag("<h1>"), Txt("b", 1), Tag("</h1>"),
       Tag("<p>"), Txt("a", DescLimit + 1), Tag("</p>") >>

RunEntries ==
    { Directory,
      File("noperm", PageWithTitle),
      File("undecodable", PageWithTitle),
      File("ok", PageWithTitle),
      File("ok", PageWithHeading),
      File("ok", << >>) }

\* Every sequence over S of length at most n.
SeqUpTo(S, n) == UNION {[1..m -> S] : m \in 0..n}

\* Every directory of at most n entries named from N, each one of E.
Directories(N, E, n) ==
    UNION {[D -> E] : D \in {T \in SUBSET N : Cardinality(T) <= n}}

TitleAlphabet ==
    { Tag("<title>"), Tag("<TITLE>"), Tag("<title lang=en>"), Tag("</title>"),
      Tag("<h1 class=x>"), Tag("</h1>"), Txt("a", 1), Space }

DescAlphabet ==
    { Meta("name-content", <<Space, Txt("a", 1), Space>>),
      Meta("name-content", <<Txt("a", 1), Quote, Txt("a", 1)>>),
      Meta("content-name", <<Txt("b", 1)>>),
      Tag("<p>"), Tag("<pre>"), Tag("</p>"), Tag("<b>"),
      Txt("a", 1), Txt("a", DescLimit), Space }

\* The files a title is extracted from: every readable content over the title
\* alphabet, and a file that cannot be opened and one that cannot be decoded.
TitleFiles ==
    {File("ok", c) : c \in SeqUpTo(TitleAlphabet, MaxTitleTokens)}
        \cup {File("noperm", PageWithTitle), File("undecodable", PageWithTitle)}

DescFiles ==
    {File("ok", c) : c \in SeqUpTo(DescAlphabet, MaxDescTokens)}
        \cup {File("noperm", PageWithTitle), File("undecodable", PageWithTitle)}

SingleFile(N, F) == UNION {[{n} -> F] : n \in N}

\* html_content before generate_index_html has filled the template.
NoDocument == [count |-> [text |-> "", n |-> 0, noun |-> ""], list |-> FALSE,
               entries |-> << >>, empty_state |-> FALSE, timestamp |-> 0]

\* index.html: what an earlier use of the directory left (a file or none), the
\* empty file open(..., 'w') makes, or a document written by a run.
PriorIndex == [state |-> "prior", doc |-> NoDocument]
TruncatedIndex == [state |-> "truncated", doc |-> NoDocument]
WrittenIndex(doc) == [state |-> "written", doc |-> doc]

\* ------------------------------------------------------------------ Init

\* main is about to start in a directory of Directories.
InitIn(dirs) ==
    /\ dir \in dirs
    /\ listable \in BOOLEAN
    /\ writable \in BOOLEAN
    /\ index = PriorIndex
    /\ now = 1
    /\ run = 1
    /\ pc = "main"
    /\ names = << >>
    /\ i = 1
    /\ snippets = << >>
    /\ title = << >>
    /\ html_content = NoDocument
    /\ handles = << >>
    /\ written = << >>
    /\ indexAtStart = PriorIndex
    /\ outOpened = FALSE

Init == InitIn(Directories(RunNames, RunEntries, MaxFiles))

\* find_html_snippets has reached its first file, a snippet; d is the directory.
AtFirstFile(d, at) ==
    /\ dir = d
    /\ listable = TRUE
    /\ writable = TRUE
    /\ index = PriorIndex
    /\ now = 1
    /\ run = 1
    /\ pc = at
    /\ names = sorted(DOMAIN d)
    /\ i = 1
    /\ snippets = << >>
    /\ html_content = NoDocument
    /\ handles = << >>
    /\ written = << >>
    /\ indexAtStart = PriorIndex
    /\ outOpened = FALSE

\* extract_title_from_html is called on a file of TitleFiles.
InitTitle ==
    \E d \in SingleFile(SnippetNames, TitleFiles) :
        AtFirstFile(d, "title_open") /\ title = << >>

\* extract_description_from_html is called on a file of DescFiles, its title
\* extracted.
InitDesc ==
    \E d \in SingleFile({NameA}, DescFiles) :
        /\ AtFirstFile(d, "desc_open")
        /\ title = extract_title_from_html(NameA, d[NameA])

\* --------------------------------------------------------------- actions

\* A run that takes a failed listing for an empty one.
on_listdir_error_ignored == "loop"

\* What the run does when os.listdir raises: nothing catches it.
on_listdir_error == "fatal"

\* main calls find_html_snippets: snippets = [] and sorted(os.listdir('.')).
ListDir ==
    /\ pc = "main"
    /\ IF listable
       THEN /\ names' = sorted(DOMAIN dir)
            /\ pc' = "loop"
       ELSE /\ names' = << >>
            /\ pc' = on_listdir_error
    /\ i' = 1
    /\ snippets' = << >>
    /\ UNCHANGED << env, index, now, run, title, html_content, handles,
                    written, indexAtStart, outOpened >>

\* The for statement and the two if statements of find_html_snippets.
keeps(d, name) == is_snippet_name(name) /\ isfile(d, name)

NextFile ==
    /\ pc = "loop"
    /\ IF i > Len(names)
       THEN pc' = "generate" /\ i' = i
       ELSE IF keeps(dir, filename)
            THEN pc' = "title_open" /\ i' = i
            ELSE pc' = "loop" /\ i' = i + 1
    /\ UNCHANGED << env, index, now, run, names, snippets, title,
                    html_content, handles, written, indexAtStart, outOpened >>

\* except OSError: a decoding error passes through.
except_catches_oserror(status) == status = "noperm"

\* except Exception as e: catches what open raises ("noperm", an OSError) and
\* what read raises ("undecodable", a UnicodeDecodeError).
except_catches(status) == status \in {"noperm", "undecodable"}

\* extract_title_from_html: open(filepath, 'r', encoding='utf-8').
OpenTitle ==
    /\ pc = "title_open"
    /\ IF dir[filename].status = "noperm"
       THEN /\ title' = title_on_error(filename)
            /\ pc' = IF except_catches("noperm") THEN "desc_open" ELSE "fatal"
            /\ handles' = handles
       ELSE /\ handles' = Append(handles, filename)
            /\ pc' = "title_read"
            /\ title' = title
    /\ UNCHANGED << env, index, now, run, names, i, snippets, html_content,
                    written, indexAtStart, outOpened >>

\* extract_title_from_html: f.read(), the searches, and the with statement's
\* exit on the return or on the exception.
ReadTitle ==
    /\ pc = "title_read"
    /\ title' = IF dir[filename].status = "undecodable"
                THEN title_on_error(filename)
                ELSE title_from_content(dir[filename].content, filename)
    /\ handles' = close_handle(handles)
    /\ pc' = IF dir[filename].status = "undecodable"
                /\ ~except_catches("undecodable")
             THEN "fatal" ELSE "desc_open"
    /\ UNCHANGED << env, index, now, run, names, i, snippets, html_content,
                    written, indexAtStart, outOpened >>

\* description = ...; snippets.append((filename, title, description)) and the
\* loop's step; raised: the status of an exception extract_description_from_html
\* raised, "ok" when none.
append_snippet(description, raised) ==
    IF raised = "ok" \/ except_catches(raised)
    THEN /\ snippets' = Append(snippets, <<filename, title, description>>)
         /\ i' = i + 1
         /\ pc' = "loop"
    ELSE /\ pc' = "fatal"
         /\ UNCHANGED << i, snippets >>

\* extract_description_from_html: open(filepath, 'r', encoding='utf-8').
OpenDesc ==
    /\ pc = "desc_open"
    /\ IF dir[filename].status = "noperm"
       THEN /\ append_snippet(description_on_error, "noperm")
            /\ handles' = handles
       ELSE /\ handles' = Append(handles, filename)
            /\ pc' = "desc_read"
            /\ UNCHANGED << i, snippets >>
    /\ UNCHANGED << env, index, now, run, names, title, html_content,
                    written, indexAtStart, outOpened >>

\* extract_description_from_html: f.read(), the searches, the with
\* statement's exit, and the append of the record.
ReadDesc ==
    /\ pc = "desc_read"
    /\ append_snippet(IF dir[filename].status = "undecodable"
                      THEN description_on_error
                      ELSE description_from_content(dir[filename].content),
                      IF dir[filename].status = "undecodable"
                      THEN "undecodable" ELSE "ok")
    /\ handles' = close_handle(handles)
    /\ UNCHANGED << env, index, now, run, names, title, html_content,
                    written, indexAtStart, outOpened >>

\* generate_index_html up to the filled template.
GenerateIndex ==
    /\ pc = "generate"
    /\ html_content' = render(snippets, now)
    /\ pc' = "out_open"
    /\ UNCHANGED << env, index, now, run, names, i, snippets, title, handles,
                    written, indexAtStart, outOpened >>

\* open(output_file, 'w', encoding='utf-8'): creates or truncates index.html;
\* nothing catches its exception.
OpenOutput ==
    /\ pc = "out_open"
    /\ IF can_open_output
       THEN /\ dir' = [n \in DOMAIN dir \cup {IndexName} |->
                          IF n = IndexName THEN File("ok", << >>) ELSE dir[n]]
            /\ index' = TruncatedIndex
            /\ handles' = Append(handles, IndexName)
            /\ outOpened' = TRUE
            /\ pc' = "out_write"
       ELSE /\ pc' = "fatal"
            /\ UNCHANGED << dir, index, handles, outOpened >>
    /\ UNCHANGED << listable, writable, now, run, names, i, snippets, title,
                    html_content, written, indexAtStart >>

\* f.write(html_content), the with statement's exit, and main's last print.
WriteOutput ==
    /\ pc = "out_write"
    /\ dir' = [dir EXCEPT ![IndexName] = File("ok", IndexTokens)]
    /\ index' = WrittenIndex(html_content)
    /\ written' = Append(written, html_content)
    /\ handles' = close_handle(handles)
    /\ pc' = "done"
    /\ UNCHANGED << listable, writable, now, run, names, i, snippets, title,
                    html_content, indexAtStart, outOpened >>

\* The operator runs generate.py again, later; whether the directory can be
\* listed may have changed, its files have not.
Rerun ==
    /\ pc \in {"done", "fatal"}
    /\ run < MaxRuns
    /\ run' = run + 1
    /\ now' = now + 1
    /\ listable' \in BOOLEAN
    /\ pc' = "main"
    /\ names' = << >>
    /\ i' = 1
    /\ snippets' = << >>
    /\ title' = << >>
    /\ html_content' = NoDocument
    /\ indexAtStart' = index
    /\ outOpened' = FALSE
    /\ UNCHANGED << dir, writable, index, handles, written >>

Next ==
    \/ ListDir
    \/ NextFile
    \/ OpenTitle
    \/ ReadTitle
    \/ OpenDesc
    \/ ReadDesc
    \/ GenerateIndex
    \/ OpenOutput
    \/ WriteOutput
    \/ Rerun

Spec == Init /\ [][Next]_vars

\* extract_title_from_html alone.
NextTitle == OpenTitle \/ ReadTitle

SpecTitle == InitTitle /\ [][NextTitle]_vars

\* extract_description_from_html alone.
NextDesc == OpenDesc \/ ReadDesc

SpecDesc == InitDesc /\ [][NextDesc]_vars

\* The steps of one run; a run once started goes on to its end.
RunStep ==
    \/ ListDir
    \/ NextFile
    \/ OpenTitle
    \/ ReadTitle
    \/ OpenDesc
    \/ ReadDesc
    \/ GenerateIndex
    \/ OpenOutput
    \/ WriteOutput

\* ---------------------------------------------------------------- claims

\* The files a claim calls qualifying: the name ends with ".html", is not
\* "index.html", and the entry is a regular file.
Qualifying(d) ==
    {n \in DOMAIN d : /\ Len(n) >= Len(HtmlExt)
                      /\ \A j \in 1..Len(HtmlExt) :
                            n[Len(n) - Len(HtmlExt) + j] = HtmlExt[j]
                      /\ n # IndexName
                      /\ d[n].kind = "file"}

Hrefs(doc) == [j \in 1..Len(doc.entries) |-> doc.entries[j].href]

RunOver == pc \in {"done", "fatal"}

\* C1: the index a run writes has exactly one list entry per qualifying file
\* of the directory and none for anything else, the entries in strictly
\* ascending file name order; index.html is never among them.
C1_IndexListsSnippetsInOrder ==
    index.state = "written" =>
        LET h == Hrefs(index.doc)
        IN  /\ {h[j] : j \in DOMAIN h} = Qualifying(dir)
            /\ \A j, k \in DOMAIN h : j < k => StrLess(h[j], h[k])
            /\ \A j \in DOMAIN h : h[j] # IndexName

\* A second run has listed two snippets beside the index.html of the first.
C1_Witness ==
    /\ run = 2
    /\ pc = "done"
    /\ Len(index.doc.entries) = 2
    /\ IndexName \in DOMAIN dir

\* C5: a qualifying file whose read or decode fails contributes exactly one
\* record, with the file name's fallback title and the empty description, and
\* every record is determined by its own file alone.
C5_FailedReadFallsBackAlone ==
    /\ \A j \in 1..Len(snippets) :
          LET r == snippets[j]
              f == dir[r[1]]
          IN  /\ f.status # "ok" =>
                    r[2] = title_fallback(r[1]) /\ r[3] = << >>
              /\ f.status = "ok" =>
                    /\ r[2] = title_from_content(f.content, r[1])
                    /\ r[3] = description_from_content(f.content)
    /\ pc \in {"generate", "out_open", "out_write", "done"} =>
          \A n \in Qualifying(dir) :
              Cardinality({j \in 1..Len(snippets) : snippets[j][1] = n}) = 1

\* The scan is over with a record of an undecodable file and a record of a
\* readable file that has its description.
C5_Witness ==
    /\ pc = "generate"
    /\ \E j, k \in 1..Len(snippets) :
          /\ dir[snippets[j][1]].status = "undecodable"
          /\ dir[snippets[k][1]].status = "ok"
          /\ snippets[k][3] # << >>

\* C6: when the directory cannot be listed the run ends in the fatal failure
\* without opening or writing index.html, which stays as the run found it.
C6_ListingFailureWritesNothing ==
    ~listable =>
        /\ pc \in {"main", "fatal"}
        /\ ~outOpened
        /\ index = indexAtStart
        /\ handles = << >>

\* A run failed on the listing and the index of an earlier run is still there.
C6_Witness ==
    /\ ~listable
    /\ pc = "fatal"
    /\ index.state = "written"
    /\ index.doc.list

\* The records the directory d determines.
RecordsOf(d) ==
    LET q == sorted(Qualifying(d))
    IN  [j \in 1..Len(q) |->
            <<q[j], extract_title_from_html(q[j], d[q[j]]),
              extract_description_from_html(d[q[j]])>>]

\* C7: the documents of successive runs on the unchanged directory differ in
\* the timestamp alone, and each is the rendering of the directory's snippets:
\* the index.html an earlier run wrote adds, removes and reorders nothing.
C7_RerunRegenerates ==
    /\ \A k \in 1..Len(written) :
          written[k] = render(RecordsOf(dir), written[k].timestamp)
    /\ \A k \in 1..(Len(written) - 1) :
          written[k + 1] =
              [written[k] EXCEPT !.timestamp = written[k + 1].timestamp]

\* Two runs have written an index with entries, at different times.
C7_Witness ==
    /\ Len(written) = 2
    /\ Len(written[2].entries) >= 1
    /\ written[2].timestamp # written[1].timestamp

\* C8: the rendered count line is "Found 1 snippet" for one record and
\* "Found N snippets" for N >= 2; for none it is "No snippets found" with the
\* empty-state block and no list; the list and the block never come together.
C8_CountLine ==
    html_content # NoDocument =>
        LET N == Len(snippets)
            d == html_content
        IN  /\ N = 1 => d.count = [text |-> "Found", n |-> 1, noun |-> "snippet"]
            /\ N >= 2 => d.count = [text |-> "Found", n |-> N, noun |-> "snippets"]
            /\ N = 0 => /\ d.count.text = "No snippets found"
                        /\ d.empty_state
                        /\ ~d.list
                        /\ d.entries = << >>
            /\ N >= 1 => d.list /\ ~d.empty_state /\ Len(d.entries) = N
            /\ ~(d.list /\ d.empty_state)

\* An index of one snippet has been written.
C8_Witness ==
    /\ pc = "done"
    /\ Len(snippets) = 1
    /\ index.doc.count.n = 1

RunPositions ==
    { "main", "loop", "title_open", "title_read", "desc_open", "desc_read",
      "generate", "out_open", "out_write" }

\* The steps a run has left at most: five for each name still to visit, and
\* those of its position.
StepsLeft ==
    CASE pc = "main" -> 5 * Cardinality(DOMAIN dir) + 10
      [] pc = "loop" -> 5 * (Len(names) + 1 - i) + 8
      [] pc = "title_open" -> 5 * (Len(names) + 1 - i) + 7
      [] pc = "title_read" -> 5 * (Len(names) + 1 - i) + 6
      [] pc = "desc_open" -> 5 * (Len(names) + 1 - i) + 5
      [] pc = "desc_read" -> 5 * (Len(names) + 1 - i) + 4
      [] pc = "generate" -> 3
      [] pc = "out_open" -> 2
      [] pc = "out_write" -> 1
      [] OTHER -> 0

C10_HandlesReleased ==
    /\ Len(handles) <= 1
    /\ handles # << >> =>
          /\ pc \in {"title_read", "desc_read", "out_write"}
          /\ handles[1] = IF pc = "out_write" THEN IndexName ELSE filename
    /\ RunOver => handles = << >>

\* The read of a title has failed and the description is about to be opened
\* with no handle left open.
C10_Witness ==
    /\ pc = "desc_open"
    /\ dir[filename].status = "undecodable"
    /\ handles = << >>

\* ------------------------------------------- claims about the extraction

\* content holds an element: an opening tag of opens with a closing tag of
\* closes somewhere after it.
OpensElement(content, a, opens, closes) ==
    /\ content[a] \in opens
    /\ \E b \in (a + 1)..Len(content) : content[b] \in closes

HasElement(content, opens, closes) ==
    \E a \in 1..Len(content) : OpensElement(content, a, opens, closes)

\* The body of the first such element: what stands between its opening tag
\* and the nearest closing tag.
FirstBody(content, opens, closes) ==
    LET a == CHOOSE a \in 1..Len(content) :
                /\ OpensElement(content, a, opens, closes)
                /\ \A e \in 1..(a - 1) : ~OpensElement(content, e, opens, closes)
        b == CHOOSE b \in (a + 1)..Len(content) :
                /\ content[b] \in closes
                /\ \A e \in (a + 1)..(b - 1) : content[e] \notin closes
    IN  SubSeq(content, a + 1, b - 1)

\* s without its leading and trailing whitespace.
Trimmed(s) ==
    LET keep == {j \in 1..Len(s) : ~IsSpace(s[j])}
        lo == CHOOSE j \in keep : \A e \in keep : j <= e
        hi == CHOOSE j \in keep : \A e \in keep : j >= e
    IN  IF keep = {} THEN << >> ELSE Canon(SubSeq(s, lo, hi))

\* The file whose title or description is extracted, and its name.
TheName == names[1]
TheFile == dir[TheName]

WithoutExtension(name) == SubSeq(name, 1, Len(name) - Len(HtmlExt))
Spaced(s) == [j \in 1..Len(s) |-> IF s[j] = "_" THEN " " ELSE s[j]]
StartsWord(s, j) == j = 1 \/ s[j - 1] = " "

\* "Each word capitalized": the first letter of each word in upper case, the
\* other letters as they are or in lower case.
CapitalizedWords(s) ==
    { [j \in 1..Len(s) |-> IF StartsWord(s, j) THEN upper(s[j]) ELSE s[j]],
      [j \in 1..Len(s) |-> IF StartsWord(s, j) THEN upper(s[j]) ELSE lower(s[j])] }

\* Title case: a letter is in upper case where no letter stands before it and
\* in lower case where one does.
TitleCased(s) ==
    [j \in 1..Len(s) |->
        IF ~iscased(s[j]) THEN s[j]
        ELSE IF j = 1 \/ ~iscased(s[j - 1]) THEN upper(s[j])
        ELSE lower(s[j])]

\* The title C2 states, given the fallbacks it allows.
TitleIsAsStated(fallbacks) ==
    LET c == TheFile.content
    IN  IF HasElement(c, TitleOpens, TitleCloses)
        THEN title = Trimmed(FirstBody(c, TitleOpens, TitleCloses))
        ELSE IF HasElement(c, H1Opens, H1Closes)
        THEN title = Trimmed(FirstBody(c, H1Opens, H1Closes))
        ELSE title \in fallbacks

TitleExtracted == pc = "desc_open" /\ TheFile.status = "ok"

\* C2 as stated: the title of a readable file is the trimmed body of its first
\* <title> element, else of its first <h1> element, else the file name with
\* the extension stripped, underscores replaced by spaces and each word
\* capitalized.
C2_TitleAsStated ==
    TitleExtracted =>
        TitleIsAsStated({FromChars(w) :
                            w \in CapitalizedWords(Spaced(WithoutExtension(TheName)))})

\* C2 amended: the fallback is the file name's stem (the name without its
\* ".html", the whole name for the file named ".html") with underscores
\* replaced by spaces, in title case: each letter upper case after a
\* non-letter or at the start and lower case after a letter.
C2_TitleWithTitleCaseFallback ==
    TitleExtracted =>
        TitleIsAsStated({FromChars(TitleCased(Spaced(
            IF TheName = HtmlExt THEN TheName ELSE WithoutExtension(TheName))))})

\* A file with a <title> element and an <h1> element of another body has the
\* title of its <title> element.
C2_Witness ==
    /\ TitleExtracted
    /\ HasElement(TheFile.content, TitleOpens, TitleCloses)
    /\ HasElement(TheFile.content, H1Opens, H1Closes)
    /\ title # Trimmed(FirstBody(TheFile.content, H1Opens, H1Closes))

DescriptionExtracted ==
    pc = "loop" /\ Len(snippets) = 1 /\ TheFile.status = "ok"

TheDescription == snippets[1][3]

\* The meta tags whose name attribute is "description".
MetaDescriptions(content) ==
    {j \in 1..Len(content) :
        content[j].k = "meta" /\ content[j].c \in {"name-content", "content-name"}}

\* C3: the description of a readable file with a meta tag named "description"
\* is that tag's content value character for character, before any <p>.
C3_MetaContentVerbatim ==
    DescriptionExtracted /\ MetaDescriptions(TheFile.content) # {} =>
        LET m == CHOOSE j \in MetaDescriptions(TheFile.content) :
                    \A e \in MetaDescriptions(TheFile.content) : j <= e
        IN  TheDescription = Canon(TheFile.content[m].v)

\* C4: the description of a readable file with no meta description and a
\* first <p> element is that paragraph's text (tags removed, whitespace
\* collapsed): its first 150 characters and "..." when it is longer than 150
\* characters, the text itself when it is not; never more than 153 characters.
C4_ParagraphCutAt150 ==
    /\ DescriptionExtracted
    /\ MetaDescriptions(TheFile.content) = {}
    /\ HasElement(TheFile.content, ParagraphOpens, PCloses)
    => LET text == normalize_whitespace(strip_tags(
                       FirstBody(TheFile.content, ParagraphOpens, PCloses)))
       IN  /\ StrLen(text) > 150 =>
                 TheDescription = Canon(Take(text, 150) \o <<Txt(".", 3)>>)
           /\ StrLen(text) <= 150 => TheDescription = text
           /\ StrLen(TheDescription) <= 153

====
